---- MODULE Spec2Model ----
(***************************************************************************)
(* A model of two parts of the ThingsBoard gateway:                        *)
(*                                                                         *)
(*   - TbLogger (tb_utility/tb_logger.py): a logger that counts errors in  *)
(*     a per-instance counter and in a class-wide counter, and reports     *)
(*     both to the platform from a background thread;                      *)
(*   - OpcUaUplinkConverter (connectors/opcua/opcua_uplink_converter.py):  *)
(*     the conversion of OPC-UA data values to telemetry and attributes.   *)
(*                                                                         *)
(* The logger is modelled as a set of threads (caller threads and one      *)
(* background thread per logger) that interleave at the granularity of     *)
(* the reads and writes of the shared attributes: Python gives no          *)
(* atomicity to "x += 1" or to "x = x - y" on an attribute.                *)
(***************************************************************************)
EXTENDS Integers, Sequences, FiniteSets, TLC

\* ------------------------------------------------------------------------
\* Program constants (class attributes of TbLogger).
RESET_ERRORS_PERIOD == 60
SEND_ERRORS_PERIOD == 5

\* Bounds of the model.
MaxTicks == 2
MaxCalls == 2

\* The amounts by which the clock is seen to advance between two steps.
TickSteps == {1, RESET_ERRORS_PERIOD}

Loggers == {"A"}
Callers == {"c1", "c2"}
Threads == Callers \cup Loggers

NoGateway == "None"
TheGateway == "gateway"

\* The operations a caller thread may invoke on a logger. "error" stands for
\* error() and for exception() without attr_name, which execute the same
\* statements; "exception_attr" is exception(attr_name=...).
Ops == {"error", "exception_attr", "reset", "stop"}

NoMsg == [kind |-> "none", logger |-> "none", attr |-> "none", errors |-> 0, all |-> 0]

VARIABLES
    now,                        \* monotonic()
    ALL_ERRORS_COUNT,           \* TbLogger.ALL_ERRORS_COUNT
    IS_ALL_ERRORS_COUNT_RESET,  \* TbLogger.IS_ALL_ERRORS_COUNT_RESET
    tb_client,                  \* the gateway's tb_client: "noattr", "None", "down", "up"
    gateway,                    \* self._gateway, per logger
    stopped,                    \* self._stopped
    previous_number_of_errors,  \* self.__previous_number_of_errors
    previous_errors_sent_time,  \* self.__previous_errors_sent_time
    errors,                     \* self.errors
    is_on_init_state,           \* self._is_on_init_state
    start_time,                 \* self._start_time
    pc,                         \* per thread: the statement it is about to execute
    op,                         \* per caller: the method it is executing
    self,                       \* per thread: the logger whose method it executes
    ra,                         \* per thread: the class counter it has loaded
    re,                         \* per thread: the instance counter it has loaded
    slept,                      \* per logger thread: the clock advanced since sleep(1) began
    logged,                     \* per caller: the leveled log write of the call was done
    ncalls,                     \* the number of calls started
    completed,                  \* per logger: the error() calls that returned, -1 once a reset began
    lowered,                    \* per thread in reset(): by how much line 99 lowered the class counter
    flush_time,                 \* per logger: when the debounced flush last fired, -1 if never
    nticks,                     \* the number of times the clock advanced
    out                         \* the telemetry message handed to the gateway by the last step

VARIABLES
    conv_pc,                    \* convert(): "idle", "create", "loop", "except", "returned"
    has_device,                 \* the converter's config holds device_name and device_type
    n_configs,                  \* len(configs)
    n_values,                   \* len(values)
    basic_timestamp,            \* line 86
    idx,                        \* the pairs of zip(configs, values) consumed so far
    results,                    \* what process_datapoint returned for each pair, in order
    telemetry_batch,            \* line 96
    attributes_batch,           \* line 97
    converted_data,             \* line 94
    returned,                   \* what convert() returned: "ConvertedData" or "None"
    stat_calls,                 \* the calls of StatisticsService.count_connector_message, in order
    log_exceptions              \* the calls of self._log.exception

VARIABLES
    point_pc,                   \* one process_datapoint call: "new", "called", "returned"
    point_config,               \* its config argument
    point_val,                  \* its val argument
    point_basic,                \* its basic_timestamp argument
    point_result                \* what it returned: <<result, error>>

pointVars == <<point_pc, point_config, point_val, point_basic, point_result>>

convVars == <<conv_pc, has_device, n_configs, n_values, basic_timestamp, idx, results,
              telemetry_batch, attributes_batch, converted_data, returned, stat_calls,
              log_exceptions, pointVars>>

classVars == <<ALL_ERRORS_COUNT, IS_ALL_ERRORS_COUNT_RESET>>
fieldVars == <<gateway, stopped, previous_number_of_errors, previous_errors_sent_time,
               errors, is_on_init_state, start_time>>
threadVars == <<pc, op, self, ra, re, slept, logged, ncalls>>
histVars == <<completed, lowered, flush_time>>
loggerVars == <<now, nticks, tb_client, classVars, fieldVars, threadVars, histVars, out>>
vars == <<loggerVars, convVars>>

\* ------------------------------------------------------------------------
\* The entities the converter builds. ConvertedData and TelemetryEntry are
\* imported by opcua_uplink_converter.py (lines 22-23); they are modelled as
\* the specification describes them: a batch owns an ordered sequence of
\* telemetry entries and an ordered sequence of attribute entries, and its
\* counts are derived from them.
NoConvertedData ==
    [device_name |-> "", device_type |-> "", telemetry |-> <<>>, attributes |-> <<>>]

\* OpcUaUplinkConverter before __init__ (lines 50-52) has run.
ConvNew ==
    /\ conv_pc = "new"
    /\ has_device = FALSE
    /\ n_configs = 0
    /\ n_values = 0
    /\ basic_timestamp = 0
    /\ idx = 0
    /\ results = <<>>
    /\ telemetry_batch = <<>>
    /\ attributes_batch = <<>>
    /\ converted_data = NoConvertedData
    /\ returned = "nothing"
    /\ stat_calls = <<>>
    /\ log_exceptions = 0
    /\ point_pc = "new"
    /\ point_config = [section |-> "timeseries", key |-> "", timestampLocation |-> "<absent>"]
    /\ point_val = [VariantType |-> "Null"]
    /\ point_basic = 0
    /\ point_result = <<[kind |-> "NoneType"], [t |-> "NoneType", v |-> <<>>]>>

\* ------------------------------------------------------------------------
\* TbLogger.__init__, lines 64-86: the fields of a new logger. The model starts
\* with every logger at line 87, about to decide whether to call _send_errors().
Init ==
    /\ now = 0
    /\ ALL_ERRORS_COUNT = 0
    /\ IS_ALL_ERRORS_COUNT_RESET = FALSE
    /\ tb_client = "noattr"
    /\ gateway \in [Loggers -> {NoGateway, TheGateway}]
    /\ stopped = [l \in Loggers |-> FALSE]
    /\ previous_number_of_errors = [l \in Loggers |-> -1]
    /\ previous_errors_sent_time = [l \in Loggers |-> 0]
    /\ errors = [l \in Loggers |-> 0]
    /\ is_on_init_state = [l \in Loggers |-> TRUE]
    /\ start_time = [l \in Loggers |-> 0]
    /\ pc = [t \in Threads |-> IF t \in Loggers THEN "ctor" ELSE "idle"]
    /\ op = [c \in Callers |-> "none"]
    /\ self = [t \in Threads |-> IF t \in Loggers THEN t ELSE "none"]
    /\ ra = [t \in Threads |-> 0]
    /\ re = [t \in Threads |-> 0]
    /\ slept = [l \in Loggers |-> FALSE]
    /\ logged = [c \in Callers |-> FALSE]
    /\ ncalls = 0
    /\ nticks = 0
    /\ completed = [l \in Loggers |-> 0]
    /\ lowered = [t \in Threads |-> 0]
    /\ flush_time = [l \in Loggers |-> -1]
    /\ out = NoMsg
    /\ ConvNew

\* ------------------------------------------------------------------------
\* The environment: the clock and the gateway's platform client.

\* monotonic() advances; a thread in sleep(1) has then slept long enough.
Tick(d) ==
    /\ nticks < MaxTicks
    /\ nticks' = nticks + 1
    /\ now' = now + d
    /\ slept' = [l \in Loggers |-> pc[l] \in {"send_errors_sleep", "sleep"}]
    /\ out' = NoMsg
    /\ UNCHANGED <<convVars, tb_client, classVars, fieldVars, pc, op, self, ra, re, logged, ncalls,
                   histVars>>

\* The gateway gets its tb_client attribute (first None, then a client object),
\* and the client connects and disconnects.
ClientStep ==
    /\ tb_client' = CASE tb_client = "noattr" -> "None"
                      [] tb_client = "None" -> "down"
                      [] tb_client = "down" -> "up"
                      [] tb_client = "up" -> "down"
    /\ out' = NoMsg
    /\ UNCHANGED <<convVars, histVars, now, nticks, classVars, fieldVars, threadVars>>

\* The constructor of logger l has returned: callers hold the logger.
Constructed(l) ==
    pc[l] \notin {"ctor", "send_errors_poll", "send_errors_sleep", "send_errors_report",
                  "thread_start"}

\* The gateway setter, lines 111-113, called by a holder of the logger.
SetGateway(l) ==
    /\ gateway[l] = NoGateway
    /\ Constructed(l)
    /\ gateway' = [gateway EXCEPT ![l] = TheGateway]
    /\ out' = NoMsg
    /\ UNCHANGED <<convVars, histVars, now, nticks, tb_client, classVars, stopped, previous_number_of_errors,
                   previous_errors_sent_time, errors, is_on_init_state, start_time,
                   threadVars>>

\* ------------------------------------------------------------------------
\* Helpers shared by the methods.

\* TransportReady without the is_connected() test of line 185.
TransportReadyUnconnected(l) ==
    /\ gateway[l] # NoGateway
    /\ tb_client # "noattr"
    /\ tb_client # "None"

\* Lines 180 and 185: the logger has a gateway with a tb_client attribute, and
\* the client is not None and is connected.
TransportReady(l) ==
    /\ gateway[l] # NoGateway
    /\ tb_client # "noattr"
    /\ tb_client # "None"
    /\ tb_client = "up"

\* Lines 186-187: the message of _send_error_count, built when it is sent.
ErrorCountMsg(l, kind, attr) ==
    [kind |-> kind, logger |-> l, attr |-> attr,
     errors |-> errors[l], all |-> ALL_ERRORS_COUNT]

\* _send_error_count, lines 176-187, past its wait: what is handed to the gateway.
SendErrorCount(l, kind, attr) ==
    IF TransportReady(l) THEN ErrorCountMsg(l, kind, attr) ELSE NoMsg

\* Line 177-178: _send_error_count can leave its wait loop.
GateOpen(l) == ~is_on_init_state[l]

\* The kind of flush a reset() run by thread t ends with.
ResetKind(t) ==
    IF t \in Loggers THEN "rollover" ELSE op[t]

\* Where thread t continues after reset() returns: line 138 in the background
\* thread, line 105 in stop(), the caller otherwise.
AfterReset(t) ==
    IF t \in Loggers THEN "restart"
    ELSE IF op[t] = "stop" THEN "set_stopped" ELSE "idle"

\* ------------------------------------------------------------------------
\* TbLogger.__init__ from line 87, run by the thread that constructs logger l.

\* Line 87: a logger constructed with a gateway calls _send_errors(); one
\* constructed without a gateway goes on to line 90.
Ctor(l) ==
    /\ pc[l] = "ctor"
    /\ pc' = [pc EXCEPT ![l] = IF gateway[l] # NoGateway THEN "send_errors_poll"
                                ELSE "thread_start"]
    /\ out' = NoMsg
    /\ UNCHANGED <<convVars, histVars, now, nticks, tb_client, classVars, fieldVars, op, self, ra, re, slept,
                   logged, ncalls>>

\* _send_errors, lines 118-123: poll until the gateway has a tb_client
\* attribute; every poll is followed by sleep(1).
SendErrorsPoll(l) ==
    /\ pc[l] = "send_errors_poll"
    /\ gateway[l] # NoGateway
    /\ tb_client # "noattr"
    /\ pc' = [pc EXCEPT ![l] = "send_errors_sleep"]
    /\ slept' = [slept EXCEPT ![l] = FALSE]
    /\ out' = NoMsg
    /\ UNCHANGED <<convVars, histVars, now, nticks, tb_client, classVars, fieldVars, op, self, ra, re, logged, ncalls>>

\* Line 123: sleep(1) returns.
SendErrorsWake(l) ==
    /\ pc[l] = "send_errors_sleep"
    /\ slept[l]
    /\ pc' = [pc EXCEPT ![l] = "send_errors_report"]
    /\ slept' = [slept EXCEPT ![l] = FALSE]
    /\ out' = NoMsg
    /\ UNCHANGED <<convVars, histVars, now, nticks, tb_client, classVars, fieldVars, op, self, ra, re, logged, ncalls>>

\* Line 125: the initial zero report is due.
InitialReportDue(l) ==
    /\ ~IS_ALL_ERRORS_COUNT_RESET
    /\ tb_client # "None"
    /\ tb_client = "up"

\* _send_errors, lines 125-128: the first logger that finds the client
\* connected reports zero counters; the logger leaves its init state.
SendErrorsReport(l) ==
    /\ pc[l] = "send_errors_report"
    /\ IF InitialReportDue(l)
       THEN /\ out' = [kind |-> "init", logger |-> l, attr |-> "own", errors |-> 0, all |-> 0]
            /\ IS_ALL_ERRORS_COUNT_RESET' = TRUE
       ELSE /\ out' = NoMsg
            /\ UNCHANGED IS_ALL_ERRORS_COUNT_RESET
    /\ is_on_init_state' = [is_on_init_state EXCEPT ![l] = FALSE]
    /\ pc' = [pc EXCEPT ![l] = "thread_start"]
    /\ UNCHANGED <<convVars, histVars, now, nticks, tb_client, ALL_ERRORS_COUNT, gateway, stopped,
                   previous_number_of_errors, previous_errors_sent_time, errors,
                   start_time, op, self, ra, re, slept, logged, ncalls>>

\* Lines 90-93: the rollover timer starts and the background thread is started.
ThreadStart(l) ==
    /\ pc[l] = "thread_start"
    /\ start_time' = [start_time EXCEPT ![l] = now]
    /\ pc' = [pc EXCEPT ![l] = "loop"]
    /\ out' = NoMsg
    /\ UNCHANGED <<convVars, histVars, now, nticks, tb_client, classVars, gateway, stopped, previous_number_of_errors,
                   previous_errors_sent_time, errors, is_on_init_state,
                   op, self, ra, re, slept, logged, ncalls>>

\* ------------------------------------------------------------------------
\* _processing_errors, lines 130-140: the background thread of logger l.

\* A loop that does not test the stop flag.
BgLoopForever(l) ==
    /\ pc[l] = "loop"
    /\ pc' = [pc EXCEPT ![l] = "cond"]
    /\ out' = NoMsg
    /\ UNCHANGED <<convVars, histVars, now, nticks, tb_client, classVars, fieldVars, op, self, ra, re, slept,
                   logged, ncalls>>

\* Line 131: the loop condition.
BgLoop(l) ==
    /\ pc[l] = "loop"
    /\ pc' = [pc EXCEPT ![l] = IF stopped[l] THEN "done" ELSE "cond"]
    /\ out' = NoMsg
    /\ UNCHANGED <<convVars, histVars, now, nticks, tb_client, classVars, fieldVars, op, self, ra, re, slept,
                   logged, ncalls>>

\* Lines 132-133: the condition of the debounced flush.
FlushDue(l) ==
    /\ previous_number_of_errors[l] # errors[l]
    /\ now - previous_errors_sent_time[l] >= SEND_ERRORS_PERIOD

\* A rollover on every tick without a flush, whatever the time.
RolloverEveryTick(l) == TRUE

\* Line 136: the condition of the rollover.
RolloverDue(l) ==
    now - start_time[l] >= RESET_ERRORS_PERIOD

\* The two branches with the rollover tested first.
BgCondRolloverFirst(l) ==
    /\ pc[l] = "cond"
    /\ pc' = [pc EXCEPT ![l] = IF RolloverDue(l) THEN "reset_ld_all"
                                ELSE IF FlushDue(l) THEN "set_previous"
                                ELSE "sleep"]
    /\ flush_time' = IF FlushDue(l) /\ ~RolloverDue(l)
                      THEN [flush_time EXCEPT ![l] = now] ELSE flush_time
    /\ slept' = [slept EXCEPT ![l] = FALSE]
    /\ out' = NoMsg
    /\ UNCHANGED <<convVars, completed, lowered, now, nticks, tb_client, classVars, fieldVars,
                   op, self, ra, re, logged, ncalls>>

\* Lines 132-136: which branch the tick takes.
BgCond(l) ==
    /\ pc[l] = "cond"
    /\ pc' = [pc EXCEPT ![l] = IF FlushDue(l) THEN "set_previous"
                                ELSE IF RolloverDue(l) THEN "reset_ld_all"
                                ELSE "sleep"]
    /\ flush_time' = IF FlushDue(l) THEN [flush_time EXCEPT ![l] = now] ELSE flush_time
    /\ slept' = [slept EXCEPT ![l] = FALSE]
    /\ out' = NoMsg
    /\ UNCHANGED <<convVars, completed, lowered, now, nticks, tb_client, classVars, fieldVars,
                   op, self, ra, re, logged, ncalls>>

\* Line 134: the counter is recorded as sent.
BgSetPrevious(l) ==
    /\ pc[l] = "set_previous"
    /\ previous_number_of_errors' = [previous_number_of_errors EXCEPT ![l] = errors[l]]
    /\ pc' = [pc EXCEPT ![l] = "flush"]
    /\ out' = NoMsg
    /\ UNCHANGED <<convVars, histVars, now, nticks, tb_client, classVars, gateway, stopped, previous_errors_sent_time,
                   errors, is_on_init_state, start_time, op, self, ra, re, slept,
                   logged, ncalls>>

\* Line 135: _send_error_count(), which waits while the logger is in its
\* init state, then line 140.
BgFlush(l) ==
    /\ pc[l] = "flush"
    /\ GateOpen(l)
    /\ out' = SendErrorCount(l, "debounce", "own")
    /\ pc' = [pc EXCEPT ![l] = "sleep"]
    /\ slept' = [slept EXCEPT ![l] = FALSE]
    /\ UNCHANGED <<convVars, histVars, now, nticks, tb_client, classVars, fieldVars, op, self, ra, re, logged, ncalls>>

\* Line 138: the rollover timer restarts, then line 140.
BgRestart(l) ==
    /\ pc[l] = "restart"
    /\ start_time' = [start_time EXCEPT ![l] = now]
    /\ pc' = [pc EXCEPT ![l] = "sleep"]
    /\ slept' = [slept EXCEPT ![l] = FALSE]
    /\ out' = NoMsg
    /\ UNCHANGED <<convVars, histVars, now, nticks, tb_client, classVars, gateway, stopped, previous_number_of_errors,
                   previous_errors_sent_time, errors, is_on_init_state,
                   op, self, ra, re, logged, ncalls>>

\* Line 140: sleep(1) returns.
BgWake(l) ==
    /\ pc[l] = "sleep"
    /\ slept[l]
    /\ pc' = [pc EXCEPT ![l] = "loop"]
    /\ slept' = [slept EXCEPT ![l] = FALSE]
    /\ out' = NoMsg
    /\ UNCHANGED <<convVars, histVars, now, nticks, tb_client, classVars, fieldVars, op, self, ra, re, logged, ncalls>>

\* ------------------------------------------------------------------------
\* reset(), lines 95-101, run by thread t (a caller in reset() or stop(), or
\* the background thread at line 137) on logger self[t].
\* Line 99 is a load of the class counter, a load of the instance counter, a
\* subtraction and a store.

ResetLoadAll(t) ==
    /\ pc[t] = "reset_ld_all"
    /\ ra' = [ra EXCEPT ![t] = ALL_ERRORS_COUNT]
    /\ pc' = [pc EXCEPT ![t] = "reset_ld_err"]
    /\ completed' = [completed EXCEPT ![self[t]] = -1]
    /\ out' = NoMsg
    /\ UNCHANGED <<convVars, lowered, flush_time, now, nticks, tb_client, classVars, fieldVars,
                   op, self, re, slept, logged, ncalls>>

ResetLoadErrors(t) ==
    /\ pc[t] = "reset_ld_err"
    /\ re' = [re EXCEPT ![t] = errors[self[t]]]
    /\ pc' = [pc EXCEPT ![t] = "reset_store"]
    /\ out' = NoMsg
    /\ UNCHANGED <<convVars, histVars, now, nticks, tb_client, classVars, fieldVars, op, self, ra, slept, logged, ncalls>>

\* Line 99: the value stored in the class counter.
ResetValue(t) == ra[t] - re[t]

ResetStore(t) ==
    /\ pc[t] = "reset_store"
    /\ ALL_ERRORS_COUNT' = ResetValue(t)
    /\ lowered' = [lowered EXCEPT ![t] = ALL_ERRORS_COUNT - ResetValue(t)]
    /\ ra' = [ra EXCEPT ![t] = 0]
    /\ re' = [re EXCEPT ![t] = 0]
    /\ pc' = [pc EXCEPT ![t] = "reset_zero"]
    /\ out' = NoMsg
    /\ UNCHANGED <<convVars, completed, flush_time, now, nticks, tb_client, IS_ALL_ERRORS_COUNT_RESET,
                   fieldVars, op, self, slept, logged, ncalls>>

\* Line 100.
ResetZero(t) ==
    /\ pc[t] = "reset_zero"
    /\ errors' = [errors EXCEPT ![self[t]] = 0]
    /\ pc' = [pc EXCEPT ![t] = "reset_send"]
    /\ out' = NoMsg
    /\ UNCHANGED <<convVars, histVars, now, nticks, tb_client, classVars, gateway, stopped, previous_number_of_errors,
                   previous_errors_sent_time, is_on_init_state, start_time,
                   op, self, ra, re, slept, logged, ncalls>>

\* Line 101: _send_error_count(), which waits while the logger is in its init
\* state; then reset() returns.
ResetSend(t) ==
    /\ pc[t] = "reset_send"
    /\ GateOpen(self[t])
    /\ out' = SendErrorCount(self[t], ResetKind(t), "own")
    /\ pc' = [pc EXCEPT ![t] = AfterReset(t)]
    /\ lowered' = [lowered EXCEPT ![t] = 0]
    /\ IF AfterReset(t) = "idle"
       THEN /\ op' = [op EXCEPT ![t] = "none"]
            /\ self' = [self EXCEPT ![t] = "none"]
       ELSE UNCHANGED <<op, self>>
    /\ UNCHANGED <<convVars, completed, flush_time, now, nticks, tb_client, classVars, fieldVars,
                   ra, re, slept, logged, ncalls>>

\* ------------------------------------------------------------------------
\* The calls of a caller thread c.

\* The caller threads are interchangeable: the first call is made by c1.
MayCall(c) ==
    c = "c1" \/ ncalls > 0

\* A caller starts error(), exception(), exception(attr_name=...), reset() or
\* stop() on a constructed logger.
Call(c, o, l) ==
    /\ pc[c] = "idle"
    /\ ncalls < MaxCalls
    /\ MayCall(c)
    /\ Constructed(l)
    /\ op' = [op EXCEPT ![c] = o]
    /\ self' = [self EXCEPT ![c] = l]
    /\ pc' = [pc EXCEPT ![c] = IF o \in {"reset", "stop"} THEN "reset_ld_all" ELSE "log"]
    /\ ncalls' = ncalls + 1
    /\ out' = NoMsg
    /\ UNCHANGED <<convVars, histVars, now, nticks, tb_client, classVars, fieldVars, ra, re, slept, logged>>

\* error() lines 148-154, exception() lines 159-166: the leveled log write
\* (and the statistics count), before _add_error().
LogWrite(c) ==
    /\ pc[c] = "log"
    /\ logged' = [logged EXCEPT ![c] = TRUE]
    /\ pc' = [pc EXCEPT ![c] = "add_ld_all"]
    /\ out' = NoMsg
    /\ UNCHANGED <<convVars, histVars, now, nticks, tb_client, classVars, fieldVars, op, self, ra, re, slept, ncalls>>

\* _add_error, line 173: TbLogger.ALL_ERRORS_COUNT += 1 is a load and a store.
AddLoadAll(c) ==
    /\ pc[c] = "add_ld_all"
    /\ ra' = [ra EXCEPT ![c] = ALL_ERRORS_COUNT]
    /\ pc' = [pc EXCEPT ![c] = "add_st_all"]
    /\ out' = NoMsg
    /\ UNCHANGED <<convVars, histVars, now, nticks, tb_client, classVars, fieldVars, op, self, re, slept, logged, ncalls>>

\* Lines 173 and 174: the value stored by "+= 1" after loading v.
Incremented(v) == v + 1

AddStoreAll(c) ==
    /\ pc[c] = "add_st_all"
    /\ ALL_ERRORS_COUNT' = Incremented(ra[c])
    /\ ra' = [ra EXCEPT ![c] = 0]
    /\ pc' = [pc EXCEPT ![c] = "add_ld_err"]
    /\ out' = NoMsg
    /\ UNCHANGED <<convVars, histVars, now, nticks, tb_client, IS_ALL_ERRORS_COUNT_RESET, fieldVars, op, self, re,
                   slept, logged, ncalls>>

\* _add_error, line 174: self.errors += 1 is a load and a store.
AddLoadErrors(c) ==
    /\ pc[c] = "add_ld_err"
    /\ re' = [re EXCEPT ![c] = errors[self[c]]]
    /\ pc' = [pc EXCEPT ![c] = "add_st_err"]
    /\ out' = NoMsg
    /\ UNCHANGED <<convVars, histVars, now, nticks, tb_client, classVars, fieldVars, op, self, ra, slept, logged, ncalls>>

\* An error() or exception() call on logger l returns.
Returned(l) ==
    [completed EXCEPT ![l] = IF @ >= 0 THEN @ + 1 ELSE @]

\* Lines 169-170: exception() with an attr_name goes on to _send_error_count;
\* error() and exception() without one return.
AfterAddError(c) ==
    IF op[c] = "exception_attr" THEN "oob_send" ELSE "idle"

AddStoreErrors(c) ==
    /\ pc[c] = "add_st_err"
    /\ errors' = [errors EXCEPT ![self[c]] = Incremented(re[c])]
    /\ re' = [re EXCEPT ![c] = 0]
    /\ pc' = [pc EXCEPT ![c] = AfterAddError(c)]
    /\ IF AfterAddError(c) = "idle"
       THEN /\ op' = [op EXCEPT ![c] = "none"]
            /\ self' = [self EXCEPT ![c] = "none"]
            /\ logged' = [logged EXCEPT ![c] = FALSE]
       ELSE UNCHANGED <<op, self, logged>>
    /\ completed' = IF AfterAddError(c) = "idle" THEN Returned(self[c]) ELSE completed
    /\ out' = NoMsg
    /\ UNCHANGED <<convVars, lowered, flush_time, now, nticks, tb_client, classVars, gateway, stopped,
                   previous_number_of_errors, previous_errors_sent_time, is_on_init_state,
                   start_time, ra, slept, ncalls>>

\* exception(), line 170: _send_error_count(error_attr_name=attr_name), which
\* waits while the logger is in its init state; then exception() returns.
OobSend(c) ==
    /\ pc[c] = "oob_send"
    /\ GateOpen(self[c])
    /\ out' = SendErrorCount(self[c], "oob", "alt")
    /\ pc' = [pc EXCEPT ![c] = "idle"]
    /\ op' = [op EXCEPT ![c] = "none"]
    /\ self' = [self EXCEPT ![c] = "none"]
    /\ logged' = [logged EXCEPT ![c] = FALSE]
    /\ completed' = Returned(self[c])
    /\ UNCHANGED <<convVars, lowered, flush_time, now, nticks, tb_client, classVars, fieldVars,
                   ra, re, slept, ncalls>>

\* stop(), line 105, then stop() returns.
SetStopped(c) ==
    /\ pc[c] = "set_stopped"
    /\ stopped' = [stopped EXCEPT ![self[c]] = TRUE]
    /\ pc' = [pc EXCEPT ![c] = "idle"]
    /\ op' = [op EXCEPT ![c] = "none"]
    /\ self' = [self EXCEPT ![c] = "none"]
    /\ out' = NoMsg
    /\ UNCHANGED <<convVars, histVars, now, nticks, tb_client, classVars, gateway, previous_number_of_errors,
                   previous_errors_sent_time, errors, is_on_init_state, start_time,
                   ra, re, slept, logged, ncalls>>

\* ------------------------------------------------------------------------
Next ==
    \/ \E d \in TickSteps : Tick(d)
    \/ ClientStep
    \/ \E l \in Loggers : SetGateway(l)
    \/ \E l \in Loggers : Ctor(l)
    \/ \E l \in Loggers : SendErrorsPoll(l)
    \/ \E l \in Loggers : SendErrorsWake(l)
    \/ \E l \in Loggers : SendErrorsReport(l)
    \/ \E l \in Loggers : ThreadStart(l)
    \/ \E l \in Loggers : BgLoop(l)
    \/ \E l \in Loggers : BgCond(l)
    \/ \E l \in Loggers : BgSetPrevious(l)
    \/ \E l \in Loggers : BgFlush(l)
    \/ \E l \in Loggers : BgRestart(l)
    \/ \E l \in Loggers : BgWake(l)
    \/ \E t \in Threads : ResetLoadAll(t)
    \/ \E t \in Threads : ResetLoadErrors(t)
    \/ \E t \in Threads : ResetStore(t)
    \/ \E t \in Threads : ResetZero(t)
    \/ \E t \in Threads : ResetSend(t)
    \/ \E c \in Callers, o \in Ops, l \in Loggers : Call(c, o, l)
    \/ \E c \in Callers : LogWrite(c)
    \/ \E c \in Callers : AddLoadAll(c)
    \/ \E c \in Callers : AddStoreAll(c)
    \/ \E c \in Callers : AddLoadErrors(c)
    \/ \E c \in Callers : AddStoreErrors(c)
    \/ \E c \in Callers : OobSend(c)
    \/ \E c \in Callers : SetStopped(c)

Spec == Init /\ [][Next]_vars

\* ------------------------------------------------------------------------
\* Properties of TbLogger.

RECURSIVE SumOver(_, _)
\* The sum of f over the set S.
SumOver(f, S) ==
    IF S = {} THEN 0
    ELSE LET x == CHOOSE y \in S : TRUE IN f[x] + SumOver(f, S \ {x})

ResetPcs == {"reset_ld_all", "reset_ld_err", "reset_store", "reset_zero", "reset_send"}

\* Every started call has finished: no caller is inside a method, and no
\* constructor or rollover is under way.
Quiescent ==
    /\ \A c \in Callers : pc[c] = "idle"
    /\ \A l \in Loggers : Constructed(l) /\ pc[l] \notin ResetPcs \cup {"restart"}

\* The steps of caller thread c.
CallerStep(c) ==
    \/ LogWrite(c)
    \/ AddLoadAll(c)
    \/ AddStoreAll(c)
    \/ AddLoadErrors(c)
    \/ AddStoreErrors(c)
    \/ OobSend(c)
    \/ ResetLoadAll(c)
    \/ ResetLoadErrors(c)
    \/ ResetStore(c)
    \/ ResetZero(c)
    \/ ResetSend(c)
    \/ SetStopped(c)

\* C1: at every quiescent point the class counter ALL_ERRORS_COUNT equals the
\* sum of the instance counters of all loggers.
C1_SumAtQuiescence ==
    Quiescent => ALL_ERRORS_COUNT = SumOver(errors, Loggers)

\* No error() or exception() call is under way on logger l.
NoErrorCallOn(l) ==
    \A c \in Callers : ~(self[c] = l /\ op[c] \in {"error", "exception_attr"})

\* C2: an error() or exception() call writes the log before it counts, and
\* after N such calls on a logger with no reset, stop or rollover in between
\* the instance counter is N and the class counter is the sum of the instance
\* counters.
C2_CountsEveryCall ==
    /\ \A c \in Callers :
         pc[c] \in {"add_ld_all", "add_st_all", "add_ld_err", "add_st_err", "oob_send"}
            => logged[c]
    /\ \A l \in Loggers :
         (completed[l] >= 0 /\ NoErrorCallOn(l)) => errors[l] = completed[l]
    /\ (\A l \in Loggers : completed[l] >= 0 /\ NoErrorCallOn(l))
          => ALL_ERRORS_COUNT = SumOver(errors, Loggers)

\* C3: when a rollover or a reset() zeroes the instance counter, it has
\* lowered the class counter by exactly the value the instance counter holds
\* just before it is zeroed, and the value it flushes for the logger is 0.
C3_ResetLowersByCounter ==
    /\ \A t \in Threads : pc[t] = "reset_zero" => errors[self[t]] = lowered[t]
    /\ out.kind \in {"rollover", "reset", "stop"} => out.errors = 0

\* C4: the debounced flush fires only when the instance counter differs from
\* the recorded one, and two consecutive debounced flushes of a logger are at
\* least SEND_ERRORS_PERIOD apart.
C4_DebounceInterval ==
    [][\A l \in Loggers :
         (pc[l] = "cond" /\ pc'[l] = "set_previous")
            => /\ previous_number_of_errors[l] # errors[l]
               /\ flush_time[l] = -1 \/ now - flush_time[l] >= SEND_ERRORS_PERIOD]_vars

\* C5: after stop() has returned, the background thread sends no flush for
\* the logger.
C5_NoFlushAfterStop ==
    out.kind \in {"debounce", "rollover"} => ~stopped[out.logger]

\* C6: a stop() under way can always take its next step, so it reaches
\* line 105 and returns. (Callers hold constructed loggers only, and nothing
\* after the constructor clears _is_on_init_state: a stop() that cannot step
\* at the wait loop of _send_error_count never steps again.)
C6_StopTerminates ==
    \A c \in Callers : op[c] = "stop" => ENABLED CallerStep(c)

\* C7: an error() or exception() call is never held at the wait loop of
\* _send_error_count.
C7_CallerNeverWaits ==
    \A c \in Callers :
        op[c] \in {"error", "exception_attr"} => ~(pc[c] = "oob_send" /\ ~GateOpen(self[c]))

\* C8: a debounced flush of a changed counter that sends nothing because the
\* transport is not connected stays due, so that a later tick sends the counter.
C8_DeferredNotLost ==
    [][\A l \in Loggers :
         (BgFlush(l) /\ errors[l] > 0 /\ out' = NoMsg) => FlushDue(l)']_vars

\* C9: every message is sent by a logger that holds a gateway whose client is
\* connected; every message but the initial zero report is sent after the
\* logger left its init state; and the init state, once left, is never
\* entered again.
C9_GatedSends ==
    [][/\ out'.kind # "none" => gateway'[out'.logger] # NoGateway /\ tb_client' = "up"
       /\ out'.kind \notin {"none", "init"} => ~is_on_init_state'[out'.logger]
       /\ \A l \in Loggers : ~is_on_init_state[l] => ~is_on_init_state'[l]]_vars

\* A flush was sent by the background thread of a logger whose init state is left.
C9_Witness ==
    /\ out.kind = "debounce"
    /\ tb_client = "up"
    /\ ~is_on_init_state[out.logger]

\* The positions of the background thread inside reset(), line 137.
RolloverPcs == {"reset_ld_all", "reset_ld_err", "reset_store", "reset_zero", "reset_send"}

\* C16: a tick of the background thread takes the debounced flush or the
\* rollover, never both: the flush branch ends at the sleep of line 140 and
\* so does the rollover branch; the rollover is entered only on a tick whose
\* flush condition is false, at least RESET_ERRORS_PERIOD after the rollover
\* timer was started, and the timer is started only by the constructor and
\* at the end of a rollover, with the current time.
C16_FlushOrRollover ==
    [][\A l \in Loggers :
         /\ (pc[l] = "cond" /\ pc'[l] \in RolloverPcs)
               => /\ ~FlushDue(l)
                  /\ now - start_time[l] >= RESET_ERRORS_PERIOD
         /\ (pc[l] = "cond" /\ pc'[l] = "set_previous") => FlushDue(l)
         /\ pc[l] \in {"set_previous", "flush"} => pc'[l] \in {"set_previous", "flush", "sleep"}
         /\ pc[l] \in RolloverPcs => pc'[l] \in RolloverPcs \cup {"restart"}
         /\ pc[l] = "restart" => pc'[l] \in {"restart", "sleep"}
         /\ (pc[l] = "restart" /\ pc'[l] = "sleep") => start_time'[l] = now
         /\ start_time'[l] # start_time[l] => pc[l] \in {"thread_start", "restart"}]_vars

\* A rollover has sent its flush and is about to restart the timer, a reset
\* period after the timer was started.
C16_Witness ==
    \E l \in Loggers :
        /\ pc[l] = "restart"
        /\ out.kind = "rollover"
        /\ now - start_time[l] >= RESET_ERRORS_PERIOD

\* The steps of the background thread of logger l.
BgStep(l) ==
    \/ BgLoop(l)
    \/ BgCond(l)
    \/ BgSetPrevious(l)
    \/ BgFlush(l)
    \/ ResetLoadAll(l)
    \/ ResetLoadErrors(l)
    \/ ResetStore(l)
    \/ ResetZero(l)
    \/ ResetSend(l)
    \/ BgRestart(l)
    \/ BgWake(l)

\* C17: the stop flag, once set, stays set, and it is set only on a logger
\* that has left its init state; with the flag set the background thread does
\* not pass line 131 again, it can always take the next step of the iteration
\* under way until it sleeps, and it exits at its next test of the flag; and
\* having exited it stays so.
C17_StoppedIsTerminal ==
    [][\A l \in Loggers :
         /\ stopped[l] => stopped'[l]
         /\ (stopped[l] /\ Constructed(l) /\ pc[l] \notin {"sleep", "done"}) => ENABLED BgStep(l)
         /\ (stopped[l] /\ pc[l] = "sleep" /\ slept[l]) => ENABLED BgStep(l)
         /\ stopped'[l] => ~is_on_init_state'[l]
         /\ (stopped[l] /\ pc[l] = "loop") => pc'[l] \in {"loop", "done"}
         /\ (stopped[l] /\ pc[l] = "sleep") => pc'[l] \in {"sleep", "loop"}
         /\ pc'[l] = "done" => stopped'[l]
         /\ pc[l] = "done" => pc'[l] = "done"]_vars

\* The background thread found the flag set and exited, after the last
\* tick of the clock.
C17_Witness ==
    \E l \in Loggers :
        /\ pc[l] = "done"
        /\ stopped[l]
        /\ nticks = MaxTicks

\* C18: an exception(attr_name=...) call that has counted its error while the
\* transport is connected can send at once, whatever the time of the last
\* flush; what it sends is one message under the alternate name with the
\* instance counter and the class counter as they are; and the step changes
\* neither the recorded last-sent value nor the rollover timer.
C18_OutOfBandFlush ==
    [][\A c \in Callers :
         /\ (pc[c] = "oob_send" /\ TransportReady(self[c])) => ENABLED OobSend(c)
         /\ (OobSend(c) /\ TransportReady(self[c])) =>
               /\ out' = [kind |-> "oob", logger |-> self[c], attr |-> "alt",
                          errors |-> errors[self[c]], all |-> ALL_ERRORS_COUNT]
               /\ previous_number_of_errors' = previous_number_of_errors
               /\ previous_errors_sent_time' = previous_errors_sent_time
               /\ start_time' = start_time]_vars

\* C19: on a tick that finds the counter changed since the last recorded
\* value, SEND_ERRORS_PERIOD after the time of line 72, the background thread
\* takes the flush and not the rollover, however long the rollover has been
\* due; a counter that changes before every tick so keeps the rollover from
\* ever firing.
C19_FlushStarvesRollover ==
    [][\A l \in Loggers :
         (/\ pc[l] = "cond"
          /\ pc'[l] # "cond"
          /\ previous_number_of_errors[l] # errors[l]
          /\ now - previous_errors_sent_time[l] >= SEND_ERRORS_PERIOD)
            => /\ pc'[l] = "set_previous"
               /\ start_time'[l] = start_time[l]
               /\ errors'[l] = errors[l]]_vars

\* A tick took the flush for a counter raised by an error() call although the
\* rollover was due.
C19_Witness ==
    \E l \in Loggers :
        /\ pc[l] = "set_previous"
        /\ errors[l] > 0
        /\ now - start_time[l] >= RESET_ERRORS_PERIOD

\* C20: the class counter and every instance counter are never negative,
\* and no message sent reports a negative count.
C20_CountersNonNegative ==
    /\ ALL_ERRORS_COUNT >= 0
    /\ \A l \in Loggers : errors[l] >= 0
    /\ out.errors >= 0
    /\ out.all >= 0

\* ========================================================================
\* OpcUaUplinkConverter (opcua_uplink_converter.py)
\* ========================================================================

MaxLen == 2                     \* the longest configs list of a call; the values
                                \* list may be one longer

\* Python values: the type's name and the value's text (a list: its items).
PyNone == [t |-> "NoneType", v |-> <<>>]
PyTrue == [t |-> "bool", v |-> <<"True">>]
PyStr(s) == [t |-> "str", v |-> <<s>>]
PyList(ss) == [t |-> "list", v |-> ss]
Raised(msg) == [t |-> "raise", v |-> <<msg>>]

\* The payloads val.Value.Value of the model: None, bytes, a UUID, an int and
\* a list of ints. n holds the bytes / the integers, s the UUID's text.
NonePayload == [t |-> "NoneType", n |-> <<>>, s |-> ""]
BytesPayload == [t |-> "bytes", n |-> <<222, 173>>, s |-> ""]
UuidPayload == [t |-> "UUID", n |-> <<>>, s |-> "12345678-1234-5678-1234-567812345678"]
IntPayload == [t |-> "int", n |-> <<42>>, s |-> ""]
ListPayload == [t |-> "list", n |-> <<4, 2>>, s |-> ""]

\* val.Value: a VariantType with its payload. Three types have a handler in
\* VARIANT_TYPE_HANDLERS and one (Int32) has none; every type may come without
\* a value, and one ByteString comes with a payload that is not bytes.
Variants ==
    {<<"Null", NonePayload>>,
     <<"ByteString", BytesPayload>>, <<"ByteString", NonePayload>>,
     <<"ByteString", IntPayload>>,
     <<"Guid", UuidPayload>>, <<"Guid", NonePayload>>,
     <<"Int32", IntPayload>>, <<"Int32", ListPayload>>, <<"Int32", NonePayload>>}

\* val.StatusCode: name, doc and is_bad().
GoodStatus == [name |-> "Good", doc |-> "The operation succeeded.", is_bad |-> FALSE]
BadStatus ==
    [name |-> "BadNodeIdUnknown",
     doc |-> "The node id refers to a node that does not exist in the server address space.",
     is_bad |-> TRUE]
StatusCodes == {GoodStatus, BadStatus}

\* val.SourceTimestamp / val.ServerTimestamp: None or a datetime, in seconds.
NoTimestamp == [t |-> "NoneType", sec |-> 0]
SourceTimestamps == {NoTimestamp, [t |-> "datetime", sec |-> 7]}
ServerTimestamps == {NoTimestamp, [t |-> "datetime", sec |-> 9]}

DataValue(variant, status, source, server) ==
    [VariantType |-> variant[1], Value |-> variant[2], StatusCode |-> status,
     data_type |-> "DataValue", SourceTimestamp |-> source, ServerTimestamp |-> server]

DataValues ==
    {DataValue(variant, status, source, server) :
        variant \in Variants, status \in StatusCodes,
        source \in SourceTimestamps, server \in ServerTimestamps}

\* A datapoint's config: 'section', 'key' and the optional 'timestampLocation'.
Absent == "<absent>"
Sections == {"timeseries", "attributes", "events"}
Keys == {"temperature"}
TimestampLocations == {Absent, "SourceTimestamp", "sourcetimestamp", "servertimestamp"}
Configs == [section : Sections, key : Keys, timestampLocation : TimestampLocations]

\* int(time() * 1000), line 86.
BasicTimestamps == {1000}

\* gateway/constants.py, imported at line 21.
TELEMETRY_PARAMETER == "telemetry"
ATTRIBUTES_PARAMETER == "attributes"

\* Lines 26-29.
DATA_TYPES == [attributes |-> ATTRIBUTES_PARAMETER, timeseries |-> TELEMETRY_PARAMETER]

Digits == <<"0", "1", "2", "3", "4", "5", "6", "7", "8", "9">>
HexDigits == <<"0", "1", "2", "3", "4", "5", "6", "7", "8", "9", "a", "b", "c", "d", "e", "f">>

\* str() of a non-negative int.
RECURSIVE DecStr(_)
DecStr(n) ==
    IF n < 10 THEN Digits[n + 1] ELSE DecStr(n \div 10) \o Digits[(n % 10) + 1]

\* Two hexadecimal digits of a byte.
Hex2(b) == HexDigits[(b \div 16) + 1] \o HexDigits[(b % 16) + 1]

\* bytes.hex(), line 39.
RECURSIVE HexOf(_)
HexOf(bs) == IF bs = <<>> THEN "" ELSE Hex2(Head(bs)) \o HexOf(Tail(bs))

\* The body of repr() of a bytes object, all bytes escaped.
RECURSIVE BytesRepr(_)
BytesRepr(bs) == IF bs = <<>> THEN "" ELSE "\\x" \o Hex2(Head(bs)) \o BytesRepr(Tail(bs))

\* str(d) for the payloads of the model (lines 32, 41, 60, 62).
Str(d) ==
    CASE d.t = "NoneType" -> "None"
      [] d.t = "int" -> DecStr(d.n[1])
      [] d.t = "UUID" -> d.s
      [] d.t = "bytes" -> "b'" \o BytesRepr(d.n) \o "'"

\* Line 60: [str(item) for item in data].
StrItems(d) == [i \in 1..Len(d.n) |-> DecStr(d.n[i])]

\* Lines 31-44 and the default of line 62, for the variant types of the model.
\* None of the payloads has a to_string attribute.
Handler(vt, d) ==
    CASE vt = "Null" -> PyNone
      [] vt = "Guid" -> PyStr(Str(d))
      [] vt = "ByteString" ->
            IF d.t = "bytes" THEN PyStr(HexOf(d.n))
            ELSE IF d.t = "UUID" THEN Raised("'str' object is not callable")
            ELSE Raised("'" \o d.t \o "' object has no attribute 'hex'")
      [] OTHER -> PyStr(Str(d))

\* Lines 58-63.
ConvertValue(val) ==
    IF val.Value.t = "list" THEN PyList(StrItems(val.Value))
    ELSE Handler(val.VariantType, val.Value)

\* Line 46 and its use at line 66.
ErrorMsg(code, node, doc) ==
    "Bad status code: " \o code \o " for node: " \o node \o " with description " \o doc

\* Line 65.
IsBadNoValue(data, val) == data = PyNone /\ val.StatusCode.is_bad

\* The configured text as it is, not lower-cased.
NotLowered(s) == s

\* str.lower() on the timestamp locations of the model.
Lower(s) ==
    CASE s = "SourceTimestamp" -> "sourcetimestamp"
      [] OTHER -> s

\* Line 69: config.get('timestampLocation', 'gateway').lower().
TimestampLocation(config) ==
    Lower(IF config.timestampLocation = Absent THEN "gateway" ELSE config.timestampLocation)

\* Lines 70-74.
Timestamp(config, val, basic) ==
    IF TimestampLocation(config) = "sourcetimestamp" /\ val.SourceTimestamp # NoTimestamp
    THEN val.SourceTimestamp.sec * 1000
    ELSE IF TimestampLocation(config) = "servertimestamp" /\ val.ServerTimestamp # NoTimestamp
    THEN val.ServerTimestamp.sec * 1000
    ELSE basic

\* What process_datapoint returns first: a TelemetryEntry, a dict or None.
TelemetryEntry(key, data, ts) == [kind |-> "TelemetryEntry", key |-> key, value |-> data, ts |-> ts]
AttributeDict(key, data) == [kind |-> "dict", key |-> key, value |-> data]
NoResult == [kind |-> "NoneType"]

\* process_datapoint, lines 55-82: <<result, error>>.
process_datapoint(config, val, basic) ==
    LET converted == ConvertValue(val)
        bad == IsBadNoValue(converted, val)
        data == IF bad
                THEN PyStr(ErrorMsg(val.StatusCode.name, val.data_type, val.StatusCode.doc))
                ELSE converted
        error == IF bad THEN PyTrue ELSE PyNone
    IN  IF converted.t = "raise" THEN <<NoResult, PyStr(converted.v[1])>>
        ELSE IF config.section \notin DOMAIN DATA_TYPES
        THEN <<NoResult, PyStr("'" \o config.section \o "'")>>
        ELSE IF DATA_TYPES[config.section] = TELEMETRY_PARAMETER
        THEN <<TelemetryEntry(config.key, data, Timestamp(config, val, basic)), error>>
        ELSE <<AttributeDict(config.key, data), error>>

\* ConvertedData(device_name=..., device_type=...), line 94.
ConvertedData(name, type) ==
    [device_name |-> name, device_type |-> type, telemetry |-> <<>>, attributes |-> <<>>]

\* converted_data.add_to_telemetry(telemetry_batch), line 107.
add_to_telemetry(cd, batch) == [cd EXCEPT !.telemetry = @ \o batch]

\* converted_data.add_to_attributes(attr) for each attr in the batch, lines 108-109.
RECURSIVE add_to_attributes(_, _)
add_to_attributes(cd, batch) ==
    IF batch = <<>> THEN cd
    ELSE add_to_attributes([cd EXCEPT !.attributes = Append(@, Head(batch))], Tail(batch))

\* Lines 111-112.
attributes_datapoints_count(cd) == Len(cd.attributes)
telemetry_datapoints_count(cd) == Len(cd.telemetry)

\* StatisticsService.count_connector_message(self._log.name, metric, count=1).
StatCall(metric, count) == [metric |-> metric, count |-> count]

\* The test of line 102 without the test of line 101.
IsTelemetryOrNull(result) == result.kind # "dict"

\* A test for an attribute entry class instead of the dict of line 104.
IsAttributeEntry(result) == result # NoResult /\ result.kind = "AttributeEntry"

\* Line 101 with 102, and with 104: where a result goes.
IsTelemetry(result) == result # NoResult /\ result.kind = "TelemetryEntry"
IsAttribute(result) == result # NoResult /\ result.kind = "dict"

\* zip(configs, values), line 99: the number of pairs.
Pairs == IF n_configs <= n_values THEN n_configs ELSE n_values

\* OpcUaUplinkConverter.__init__, lines 50-52: the converter's config holds the
\* device's name and type, or lacks them.
ConvConstruct(dev) ==
    /\ conv_pc = "new"
    /\ conv_pc' = "idle"
    /\ has_device' = dev
    /\ UNCHANGED <<loggerVars, pointVars, n_configs, n_values, basic_timestamp, idx, results,
                   telemetry_batch, attributes_batch, converted_data, returned,
                   stat_calls, log_exceptions>>

\* convert, lines 85-92: the 'processed' count, the fallback timestamp, and
\* configs / values wrapped into lists when they are not lists.
ConvCall(configs_is_list, nc, values_is_list, nv, ts) ==
    /\ conv_pc = "idle"
    /\ conv_pc' = "create"
    /\ stat_calls' = <<StatCall("convertersMsgProcessed", 1)>>
    /\ basic_timestamp' = ts
    /\ n_configs' = IF configs_is_list THEN nc ELSE 1
    /\ n_values' = IF values_is_list THEN nv ELSE 1
    /\ idx' = 0
    /\ results' = <<>>
    /\ telemetry_batch' = <<>>
    /\ attributes_batch' = <<>>
    /\ converted_data' = NoConvertedData
    /\ returned' = "nothing"
    /\ log_exceptions' = 0
    /\ UNCHANGED <<loggerVars, pointVars, has_device>>

\* Lines 94-97.
ConvCreate ==
    /\ conv_pc = "create"
    /\ has_device
    /\ converted_data' = ConvertedData("device", "default")
    /\ telemetry_batch' = <<>>
    /\ attributes_batch' = <<>>
    /\ conv_pc' = "loop"
    /\ UNCHANGED <<loggerVars, pointVars, has_device, n_configs, n_values, basic_timestamp, idx,
                   results, returned, stat_calls, log_exceptions>>

\* Lines 99-105, one pair of zip(configs, values).
ConvPoint(config, val) ==
    /\ conv_pc = "loop"
    /\ idx < Pairs
    /\ LET r == process_datapoint(config, val, basic_timestamp)
       IN  /\ results' = Append(results, r)
           /\ telemetry_batch' =
                  IF IsTelemetry(r[1]) THEN Append(telemetry_batch, r[1]) ELSE telemetry_batch
           /\ attributes_batch' =
                  IF IsAttribute(r[1]) THEN Append(attributes_batch, r[1]) ELSE attributes_batch
    /\ idx' = idx + 1
    /\ UNCHANGED <<loggerVars, pointVars, conv_pc, has_device, n_configs, n_values, basic_timestamp,
                   converted_data, returned, stat_calls, log_exceptions>>

\* The batch after lines 107-109.
Filled == add_to_attributes(add_to_telemetry(converted_data, telemetry_batch), attributes_batch)

\* Lines 107-114.
ConvFinish ==
    /\ conv_pc = "loop"
    /\ idx = Pairs
    /\ converted_data' = Filled
    /\ stat_calls' = stat_calls \o
           <<StatCall("convertersAttrProduced", attributes_datapoints_count(Filled)),
             StatCall("convertersTsProduced", telemetry_datapoints_count(Filled))>>
    /\ returned' = "ConvertedData"
    /\ conv_pc' = "returned"
    /\ UNCHANGED <<loggerVars, pointVars, has_device, n_configs, n_values, basic_timestamp, idx,
                   results, telemetry_batch, attributes_batch, log_exceptions>>

\* ConvExcept without the count of line 117.
ConvExceptUncounted ==
    /\ conv_pc = "create"
    /\ ~has_device
    /\ log_exceptions' = log_exceptions + 1
    /\ returned' = "None"
    /\ conv_pc' = "returned"
    /\ UNCHANGED <<loggerVars, pointVars, has_device, n_configs, n_values, basic_timestamp, idx,
                   results, telemetry_batch, attributes_batch, converted_data, stat_calls>>

\* Line 94 raising KeyError, then lines 115-117 and the implicit return None.
ConvExcept ==
    /\ conv_pc = "create"
    /\ ~has_device
    /\ log_exceptions' = log_exceptions + 1
    /\ stat_calls' = Append(stat_calls, StatCall("convertersMsgDropped", 1))
    /\ returned' = "None"
    /\ conv_pc' = "returned"
    /\ UNCHANGED <<loggerVars, pointVars, has_device, n_configs, n_values, basic_timestamp, idx,
                   results, telemetry_batch, attributes_batch, converted_data>>

\* The converter is given a logger (line 51) that nothing else uses meanwhile.
ConvInit ==
    /\ Init
    /\ gateway = [l \in Loggers |-> NoGateway]

\* A direct call of the static method process_datapoint, line 55.
PointCall(config, val, basic) ==
    /\ point_pc = "new"
    /\ point_pc' = "called"
    /\ point_config' = config
    /\ point_val' = val
    /\ point_basic' = basic
    /\ UNCHANGED <<loggerVars, conv_pc, has_device, n_configs, n_values, basic_timestamp,
                   idx, results, telemetry_batch, attributes_batch, converted_data,
                   returned, stat_calls, log_exceptions, point_result>>

\* Lines 56-82: the call returns.
PointReturn ==
    /\ point_pc = "called"
    /\ point_pc' = "returned"
    /\ point_result' = process_datapoint(point_config, point_val, point_basic)
    /\ UNCHANGED <<loggerVars, conv_pc, has_device, n_configs, n_values, basic_timestamp,
                   idx, results, telemetry_batch, attributes_batch, converted_data,
                   returned, stat_calls, log_exceptions, point_config, point_val,
                   point_basic>>

PointNext ==
    \/ \E config \in Configs, val \in DataValues, basic \in BasicTimestamps :
          PointCall(config, val, basic)
    \/ PointReturn

PointSpec == ConvInit /\ [][PointNext]_vars

ConvNext ==
    \/ \E dev \in BOOLEAN : ConvConstruct(dev)
    \/ \E cl \in BOOLEAN, nc \in 0..MaxLen, vl \in BOOLEAN, nv \in 0..(MaxLen + 1),
          ts \in BasicTimestamps : ConvCall(cl, nc, vl, nv, ts)
    \/ ConvCreate
    \/ \E config \in Configs, val \in DataValues : ConvPoint(config, val)
    \/ ConvFinish
    \/ ConvExcept

ConvSpec == ConvInit /\ [][ConvNext]_vars

\* ------------------------------------------------------------------------
\* Properties of the converter.

\* The results of the given kind, in order.
RECURSIVE Kept(_, _)
Kept(rs, kind) ==
    IF rs = <<>> THEN <<>>
    ELSE IF Head(rs)[1].kind = kind
    THEN <<Head(rs)[1]>> \o Kept(Tail(rs), kind)
    ELSE Kept(Tail(rs), kind)

NonNull(rs) == {i \in 1..Len(rs) : rs[i][1].kind # "NoneType"}

ProducedCalls ==
    SelectSeq(stat_calls,
              LAMBDA c : c.metric \in {"convertersAttrProduced", "convertersTsProduced"})

\* C10: when convert() returns a batch, process_datapoint has run once for each
\* pair of zip(configs, values); the batch's telemetry is the subsequence of
\* the TelemetryEntry results and its attributes the subsequence of the dict
\* results, in pairing order; None results are in neither, so the two together
\* are as many as the non-None results; and the produced counts reported are
\* the numbers of attribute and of telemetry entries of the batch.
C10_BatchIsNonNullResults ==
    (conv_pc = "returned" /\ returned = "ConvertedData") =>
        /\ Len(results) = Pairs
        /\ converted_data.telemetry = Kept(results, "TelemetryEntry")
        /\ converted_data.attributes = Kept(results, "dict")
        /\ Len(converted_data.telemetry) + Len(converted_data.attributes)
               = Cardinality(NonNull(results))
        /\ ProducedCalls =
               <<StatCall("convertersAttrProduced", Len(Kept(results, "dict"))),
                 StatCall("convertersTsProduced", Len(Kept(results, "TelemetryEntry")))>>

\* A call with lists of different lengths that returned a batch holding a
\* telemetry entry, after a None result was dropped.
C10_Witness ==
    /\ conv_pc = "returned"
    /\ returned = "ConvertedData"
    /\ n_configs # n_values
    /\ Len(results) = Pairs
    /\ Len(results) > 1
    /\ results[1][1] = NoResult
    /\ Len(converted_data.telemetry) = 1

\* The calls of count_connector_message for one metric.
CallsOf(metric) == SelectSeq(stat_calls, LAMBDA c : c.metric = metric)

\* C11: a convert() call under way or finished has recorded exactly one
\* 'processed' count; a call that found no device identity in the converter's
\* config has returned None, with no batch built, one 'dropped' count, one
\* logged exception and no produced count; a call that returned a batch has
\* recorded no 'dropped' count; and convert() returns one of the two, it
\* raises nothing.
C11_ProcessedAndDropped ==
    /\ conv_pc \in {"create", "loop", "returned"}
          => CallsOf("convertersMsgProcessed") = <<StatCall("convertersMsgProcessed", 1)>>
    /\ conv_pc = "returned" => returned \in {"ConvertedData", "None"}
    /\ (conv_pc = "returned" /\ ~has_device) =>
          /\ returned = "None"
          /\ converted_data = NoConvertedData
          /\ results = <<>>
          /\ CallsOf("convertersMsgDropped") = <<StatCall("convertersMsgDropped", 1)>>
          /\ ProducedCalls = <<>>
          /\ log_exceptions = 1
    /\ (conv_pc = "returned" /\ returned = "ConvertedData") =>
          /\ has_device
          /\ CallsOf("convertersMsgDropped") = <<>>
          /\ log_exceptions = 0

\* A call with two configs and two values on a converter without device
\* identity has returned None.
C11_Witness ==
    /\ conv_pc = "returned"
    /\ ~has_device
    /\ returned = "None"
    /\ n_configs = MaxLen
    /\ n_values = MaxLen

\* ------------------------------------------------------------------------
\* Properties of process_datapoint.

\* The call under way was given a bad status and no value.
BadWithoutValue ==
    /\ point_val.StatusCode.is_bad
    /\ point_val.Value.t = "NoneType"

\* C12: process_datapoint, given a bad status and no value under a known
\* section, returns an entry of the section's kind whose value is the text
\* 'Bad status code: <name> for node: <id> with description <doc>', and
\* error = True, whatever the variant type.
C12_BadStatusIsData ==
    (point_pc = "returned" /\ BadWithoutValue /\ point_config.section \in DOMAIN DATA_TYPES) =>
        /\ point_result[1].kind =
               (IF point_config.section = "timeseries" THEN "TelemetryEntry" ELSE "dict")
        /\ point_result[1].value.t = "str"
        /\ point_result[1].value.v[1] =
               "Bad status code: " \o point_val.StatusCode.name
                  \o " for node: " \o point_val.data_type
                  \o " with description " \o point_val.StatusCode.doc
        /\ point_result[2] = PyTrue

\* The same for the variant type Null only, whose handler returns None.
C12_NullBadStatusIsData ==
    point_val.VariantType = "Null" => C12_BadStatusIsData

\* ------------------------------------------------------------------------
\* Further properties of convert().

\* What process_datapoint returns for a config whose section is not a key of
\* DATA_TYPES: line 76 raises KeyError(section), line 82 returns its text.
UnknownSectionResults ==
    {<<NoResult, PyStr("'" \o section \o "'")>> : section \in Sections \ DOMAIN DATA_TYPES}

\* Some pair of the call had a config with an unknown section.
SawUnknownSection ==
    \E i \in 1..Len(results) : results[i] \in UnknownSectionResults

\* C13: a convert() call that met a config with an unknown section does not
\* end as a successful call without trace: it returns no batch, or logs the
\* failure, or records a 'dropped' count.
C13_UnknownSectionIsLoud ==
    (conv_pc = "returned" /\ SawUnknownSection) =>
        \/ returned # "ConvertedData"
        \/ log_exceptions > 0
        \/ CallsOf("convertersMsgDropped") # <<>>

\* A result that is in the batch convert() returned.
InBatch(result) ==
    \/ \E i \in 1..Len(converted_data.telemetry) : converted_data.telemetry[i] = result
    \/ \E i \in 1..Len(converted_data.attributes) : converted_data.attributes[i] = result

\* C14: a pair whose processing failed gave (None, error text); whatever
\* failed, a convert() call on a converter with device identity goes through
\* all its pairs and returns a batch that holds every non-None result, and it
\* records no 'dropped' count.
C14_PointFailureKeepsBatch ==
    /\ \A i \in 1..Len(results) :
          results[i][1] = NoResult => results[i][2].t = "str"
    /\ (conv_pc = "returned" /\ has_device) =>
          /\ returned = "ConvertedData"
          /\ Len(results) = Pairs
          /\ \A i \in 1..Len(results) :
                results[i][1] # NoResult => InBatch(results[i][1])
          /\ CallsOf("convertersMsgDropped") = <<>>

\* The first pair's value conversion failed and the second pair's result is
\* in the batch returned.
C14_Witness ==
    /\ conv_pc = "returned"
    /\ returned = "ConvertedData"
    /\ Len(results) = MaxLen
    /\ results[1] = <<NoResult, PyStr("'int' object has no attribute 'hex'")>>
    /\ results[MaxLen][1].kind = "dict"
    /\ converted_data.attributes = <<results[MaxLen][1]>>

\* ------------------------------------------------------------------------
\* Further properties of process_datapoint.

\* The timestamp fields of the call's value, in milliseconds.
SourceMs == point_val.SourceTimestamp.sec * 1000
ServerMs == point_val.ServerTimestamp.sec * 1000
HasSource == point_val.SourceTimestamp.t = "datetime"
HasServer == point_val.ServerTimestamp.t = "datetime"

\* The call's value converts without failure: its payload fits its type.
ValueFits == point_val.VariantType = "ByteString" => point_val.Value.t \in {"bytes", "list"}

\* The timestamp of the entry returned is the one the locations name, and a
\* telemetry point whose value converts is never refused for its timestamp.
TimestampIs(source_names, server_names) ==
    /\ (point_pc = "returned" /\ point_result[1].kind = "TelemetryEntry") =>
          point_result[1].ts =
             (IF point_config.timestampLocation \in source_names /\ HasSource THEN SourceMs
              ELSE IF point_config.timestampLocation \in server_names /\ HasServer THEN ServerMs
              ELSE point_basic)
    /\ (point_pc = "returned" /\ point_config.section = "timeseries" /\ ValueFits) =>
          point_result[1].kind = "TelemetryEntry"

\* C15 as stated: the entry's timestamp is the fallback unless
\* timestampLocation is 'sourcetimestamp' with a source timestamp present (then
\* the source timestamp in ms) or 'servertimestamp' with a server timestamp
\* present (then the server timestamp in ms); an absent field gives the
\* fallback and no failure.
C15_TimestampByLocation ==
    TimestampIs({"sourcetimestamp"}, {"servertimestamp"})

\* C15 amended: the same with timestampLocation compared without regard to
\* case, so that 'SourceTimestamp' names the source timestamp too.
C15_TimestampByLocationAnyCase ==
    TimestampIs({"sourcetimestamp", "SourceTimestamp"}, {"servertimestamp"})

\* A telemetry entry configured with 'SourceTimestamp' took the source
\* timestamp, not the fallback and not the server timestamp also present.
C15_Witness ==
    /\ point_pc = "returned"
    /\ point_config.timestampLocation = "SourceTimestamp"
    /\ HasSource
    /\ HasServer
    /\ point_result[1].kind = "TelemetryEntry"
    /\ point_result[1].ts = SourceMs
    /\ point_result[1].ts # point_basic

====
